---- MODULE Spec2Model ----
(***************************************************************************)
(* gulp-importer: the Importer class of src/lib/index.ts.                  *)
(*                                                                         *)
(* Text is a sequence of tokens.  A token is either a piece of plain text *)
(* or one maximal match of options.regexPattern (a directive, written     *)
(* "@<argument>"); two tokens are the same text iff they are equal.        *)
(* A path is a sequence of segments; an absolute path starts with "/".    *)
(***************************************************************************)
EXTENDS Integers, Sequences, FiniteSets, TLC

(***************************************************************************)
(* Bounds of the model.                                                    *)
(***************************************************************************)
\* Longest content handed to execute, in tokens.
MaxLen == 2
\* Handler invocations (files written to execute()/updateDependency()) per run.
MaxCalls == 2
\* Longest dependency content put to String.prototype.replace on its own.
MaxSample == 3

(***************************************************************************)
(* Paths (node's path module).                                             *)
(***************************************************************************)
Undefined == <<"undefined">>
Null == <<"null">>

\* process.cwd()
Cwd == <<"/", "r">>

IsAbsolute(p) == Len(p) > 0 /\ p[1] = "/"

RECURSIVE NormalizeFrom(_, _)
\* Path.normalize on the segments `todo`, `acc` being the part already done.
NormalizeFrom(acc, todo) ==
    IF todo = <<>> THEN acc
    ELSE LET s == Head(todo)
         IN  IF s = "." THEN NormalizeFrom(acc, Tail(todo))
             ELSE IF s = ".."
                  THEN NormalizeFrom(IF Len(acc) > 1 THEN SubSeq(acc, 1, Len(acc) - 1) ELSE acc,
                                     Tail(todo))
                  ELSE NormalizeFrom(Append(acc, s), Tail(todo))

\* Path.resolve(a, b): the rightmost absolute argument wins, the working
\* directory is prepended when neither is absolute, the result is normalized.
PathResolve(a, b) ==
    LET joined == IF IsAbsolute(b) THEN b
                  ELSE IF IsAbsolute(a) THEN a \o b
                  ELSE Cwd \o a \o b
    IN  NormalizeFrom(<<"/">>, Tail(joined))

\* Path.parse(p).dir
ParseDir(p) == IF Len(p) = 0 THEN <<>> ELSE SubSeq(p, 1, Len(p) - 1)

(***************************************************************************)
(* The file system the engine reads.                                       *)
(***************************************************************************)
PathP  == <<"/", "r", "p">>
PathA  == <<"/", "r", "a">>
PathC  == <<"/", "r", "c">>
PathSB == <<"/", "r", "s", "b">>
PathM  == <<"/", "r", "m">>
PathRC == <<"/", "c">>
PathMX == <<"/", "r", "m.x">>
PathMY == <<"/", "r", "m.y">>
PathNX == <<"/", "r", "n.x">>
PathNB == <<"/", "r", "n.x~">>

DiskFiles == {PathP, PathA, PathC, PathSB, PathRC, PathMX, PathMY, PathNX, PathNB}

\* Content of every file on disk.  /r/a names itself and /r/c; /r/s/b names
\* "../c", which from its own directory is /r/c and from /r would be /c;
\* /r/m does not exist, /r/m.x and /r/m.y do; /r/n.x has a copy /r/n.x~
\* beside it.
Disk(p) ==
    CASE p = PathP  -> <<"@./c", "x", "@c">>
      [] p = PathA  -> <<"@a", "@c">>
      [] p = PathC  -> <<"$", "&">>
      [] p = PathSB -> <<"@../c", "z">>
      [] p = PathRC -> <<"w">>
      [] p = PathMX -> <<"y">>
      [] p = PathMY -> <<"v">>
      [] p = PathNX -> <<"u">>
      [] p = PathNB -> <<"t">>
      [] OTHER      -> <<>>

\* afs.readdir(dir): the names in the directory, in the order the file system
\* lists them (no order is promised: /r lists n.x~ before n.x); a directory
\* that does not exist has no listing.
Readdir(dir) ==
    CASE dir = <<"/">>           -> [ok |-> TRUE, names |-> <<"c", "r">>]
      [] dir = <<"/", "r">>      -> [ok |-> TRUE, names |-> <<"a", "c", "m.x", "m.y", "n.x~", "n.x", "p", "s">>]
      [] dir = <<"/", "r", "s">> -> [ok |-> TRUE, names |-> <<"b">>]
      [] OTHER                   -> [ok |-> FALSE, names |-> <<>>]

\* name.startsWith(base) for the names of the model.
StartsWith(name, base) ==
    \/ name = base
    \/ base = "m" /\ name \in {"m.x", "m.y"}
    \/ base = "n.x" /\ name = "n.x~"

(***************************************************************************)
(* Directives: options.regexPattern and options.regexGroup.                *)
(***************************************************************************)
Directives == {"@a", "@c", "@./c", "@../c", "@s/b", "@m", "@q", "@m.x", "@n.x"}

\* match[this.options.regexGroup ?? 1].trim(), as path segments
MatchGroup(tok) ==
    CASE tok = "@a"   -> <<"a">>
      [] tok = "@c"   -> <<"c">>
      [] tok = "@./c" -> <<".", "c">>
      [] tok = "@../c" -> <<"..", "c">>
      [] tok = "@s/b" -> <<"s", "b">>
      [] tok = "@m"   -> <<"m">>
      [] tok = "@q"   -> <<"q">>
      [] tok = "@m.x" -> <<"m.x">>
      [] tok = "@n.x" -> <<"n.x">>
      [] OTHER        -> <<>>

RECURSIVE matchAll(_)
\* content.matchAll(regexPattern): the matches of the content as it is when
\* the loop starts, left to right; match[0] is the token itself.
matchAll(content) ==
    IF content = <<>> THEN <<>>
    ELSE IF Head(content) \in Directives
         THEN <<Head(content)>> \o matchAll(Tail(content))
         ELSE matchAll(Tail(content))

(***************************************************************************)
(* String.prototype.replace with a string pattern.                         *)
(***************************************************************************)
RECURSIVE Expand(_, _, _, _)
\* The replacement string as String.prototype.replace reads it: "$$" is one
\* "$", "$&" the matched text, "$" and a backquote (token "bq") the text
\* before the match, "$" and a single quote (token "sq") the text after it;
\* any other "$" stands for itself.
Expand(repl, matched, before, after) ==
    IF repl = <<>> THEN <<>>
    ELSE IF Head(repl) = "$" /\ Len(repl) > 1 /\ repl[2] \in {"$", "&", "bq", "sq"}
         THEN (CASE repl[2] = "$" -> <<"$">>
                 [] repl[2] = "&" -> <<matched>>
                 [] repl[2] = "bq" -> before
                 [] OTHER         -> after)
              \o Expand(SubSeq(repl, 3, Len(repl)), matched, before, after)
         ELSE <<Head(repl)>> \o Expand(Tail(repl), matched, before, after)

\* The dependency content handed to replace as it is.
EscapeDollarNone(text) == text

RECURSIVE EscapeDollar(_)
\* dContent.replace(/\$/g, "$$$$"): every "$" becomes "$$".
EscapeDollar(text) ==
    IF text = <<>> THEN <<>>
    ELSE (IF Head(text) = "$" THEN <<"$", "$">> ELSE <<Head(text)>>)
         \o EscapeDollar(Tail(text))

\* content.indexOf(value): the first position of the text `value`, 0 if none.
IndexOf(content, value) ==
    IF \E i \in 1..Len(content) : content[i] = value
    THEN CHOOSE i \in 1..Len(content) :
            content[i] = value /\ \A j \in 1..(i - 1) : content[j] # value
    ELSE 0

\* content.replace(value, repl) with a string `value`: the first occurrence
\* of that text in the content, wherever it is, is replaced.
StringReplace(content, value, repl) ==
    LET i == IndexOf(content, value)
    IN  IF i = 0 THEN content
        ELSE LET before == SubSeq(content, 1, i - 1)
                 after  == SubSeq(content, i + 1, Len(content))
             IN  before \o Expand(repl, value, before, after) \o after

\* The text that takes the place of a directive (index.ts line 337).
ReplaceDirective(content, value, dContent) ==
    StringReplace(content, value, EscapeDollar(dContent))

\* The text left when a repeated import is dropped (index.ts line 316).
RemoveDirective(content, value) == StringReplace(content, value, <<>>)

(***************************************************************************)
(* The dependency cache.                                                   *)
(***************************************************************************)
\* Importer.encode: base64 of the path, an injective renaming of it.
encode(path) == <<"b64">> \o path

\* this._cache[key] as the ordered list of its entries (absent: empty).
CacheEntries(cch, key) == IF key \in DOMAIN cch THEN cch[key] ELSE <<>>

SeqToSet(s) == {s[i] : i \in 1..Len(s)}

\* appendCache acting on a test made before other passes wrote: the entry of
\* the key is made anew.
appendCacheRacy(cch, dpnPath, prmPath) ==
    LET key  == encode(dpnPath)
        file == PathResolve(<<>>, prmPath)
    IN  (key :> <<file>>) @@ cch

\* appendCache that also drops the referencing file from every other key.
appendCachePruned(cch, dpnPath, prmPath) ==
    LET key  == encode(dpnPath)
        file == PathResolve(<<>>, prmPath)
        kept == [k \in DOMAIN cch |->
                    IF k = key THEN cch[k] ELSE SelectSeq(cch[k], LAMBDA f : f # file)]
    IN  IF key \notin DOMAIN kept
        THEN (key :> <<file>>) @@ kept
        ELSE IF file \notin SeqToSet(kept[key])
             THEN [kept EXCEPT ![key] = Append(@, file)]
             ELSE kept

\* appendCache without the hasOwnProperty test: a list with duplicates.
appendCacheList(cch, dpnPath, prmPath) ==
    LET key  == encode(dpnPath)
        file == PathResolve(<<>>, prmPath)
    IN  IF key \notin DOMAIN cch
        THEN (key :> <<file>>) @@ cch
        ELSE [cch EXCEPT ![key] = Append(@, file)]

\* appendCache(dpnPath, prmPath): under the encoded dependency path, the
\* referencing File (its resolved path), keyed by its encoded path, unless an
\* entry with that key is already there.
appendCache(cch, dpnPath, prmPath) ==
    LET key  == encode(dpnPath)
        file == PathResolve(<<>>, prmPath)
    IN  IF key \notin DOMAIN cch
        THEN (key :> <<file>>) @@ cch
        ELSE IF encode(file) \notin {encode(f) : f \in SeqToSet(cch[key])}
             THEN [cch EXCEPT ![key] = Append(@, file)]
             ELSE cch

(***************************************************************************)
(* Options and the constructor.                                            *)
(***************************************************************************)
\* The defaults object, for the options the model follows.
defaults ==
    [importOnce |-> TRUE, importRecursively |-> FALSE,
     dependencyOutput |-> "primary", requireExtension |-> TRUE]

\* The values an option may be given.
OptionValues(key) ==
    IF key = "dependencyOutput" THEN {"primary", "dependant", "all"} ELSE BOOLEAN

\* The ways of passing or leaving out one option.
Opt(key) == {<<>>} \cup {key :> v : v \in OptionValues(key)}

\* Every options object over the four options, each one passed or left out.
OptionObjects ==
    {a @@ b @@ c @@ d : a \in Opt("importOnce"), b \in Opt("importRecursively"),
                        c \in Opt("dependencyOutput"), d \in Opt("requireExtension")}

\* The constructor as it once was: if (!options[key]) options[key] = defaults[key].
ConstructorFalsy(given) ==
    [key \in DOMAIN defaults |->
        IF key \in DOMAIN given /\ given[key] # FALSE THEN given[key] ELSE defaults[key]]

\* constructor(options): a default for every key the object does not own.
Constructor(given) ==
    [key \in DOMAIN defaults |->
        IF key \in DOMAIN given THEN given[key] ELSE defaults[key]]

(***************************************************************************)
(* State.                                                                  *)
(***************************************************************************)
VARIABLES
    options,             \* this.options after the constructor
    cache,               \* this._cache
    streamResolveStack,  \* this._streamResolveStack: the array it refers to
    arrays,              \* the resolve-stack arrays that are still referenced
    calls,               \* the through.obj handler invocations
    streams,             \* the transforms made by resolveStream
    ncalls,              \* handler invocations so far
    inlined,             \* history: <<D, P>> when a replace of P inlined D
    received,            \* history: <<D, F>> when text of D reached F's output
    pipeline,            \* how the run's gulp.src delivers files: "buffer" or "stream"
    supplied,            \* history: the options object the constructor was given
    innerPl,             \* TRUE when execute() was given a transformation
    sample               \* a dependency content put to String.prototype.replace

vars == <<options, cache, streamResolveStack, arrays, calls, streams, ncalls,
          inlined, received, pipeline, supplied, innerPl, sample>>

\* What no operation of the engine changes.
settings == <<options, pipeline, supplied, innerPl, sample>>

CallIds == {1}
StreamIds == {1, 2}
ArrIds == 0..Cardinality(StreamIds)

\* Nesting depth after which a recursive replace is known never to return:
\* a chain of nested files longer than the number of files repeats one.
MaxDepth == Cardinality(DiskFiles)

(***************************************************************************)
(* Reading a dependency.                                                   *)
(***************************************************************************)
\* afs.readFile(path, encoding)
afsReadFile(path) ==
    IF path \in DiskFiles
    THEN [ok |-> TRUE, content |-> Disk(path)]
    ELSE [ok |-> FALSE, content |-> <<>>]

\* find() taking the last entry that starts with the base name.
FirstMatchLast(names, base) ==
    CHOOSE i \in 0..Len(names) :
        /\ i > 0 => StartsWith(names[i], base)
        /\ \A j \in (i + 1)..Len(names) : ~StartsWith(names[j], base)
        /\ i = 0 => \A j \in 1..Len(names) : ~StartsWith(names[j], base)

\* dirContent.find(base => base.startsWith(parsedPath.base)): the position
\* of the first such name, 0 when there is none.
FirstMatch(names, base) ==
    CHOOSE i \in 0..Len(names) :
        /\ i > 0 => StartsWith(names[i], base)
        /\ \A j \in 1..(i - 1) : ~StartsWith(names[j], base)
        /\ i = 0 => \A j \in 1..Len(names) : ~StartsWith(names[j], base)

\* Path.format(parsedPath) once parsedPath.base is the entry found; null
\* when none was found.
FormatMatch(dir, names, i) ==
    IF i = 0 THEN [st |-> "null", path |-> <<>>]
    ELSE [st |-> "ok", path |-> dir \o <<names[i]>>]

\* The body of normalizePath when no extension is required: readdir rejects
\* when there is no such directory.
InferExtension(dir, base, ls) ==
    IF ~ls.ok THEN [st |-> "throw", path |-> <<>>]
    ELSE FormatMatch(dir, ls.names, FirstMatch(ls.names, base))

\* normalizePath(path): the path itself when an extension is required; else
\* the directory of the path with the first entry that starts with its base
\* name, null when no entry does.
normalizePath(path) ==
    IF options.requireExtension THEN [st |-> "ok", path |-> path]
    ELSE InferExtension(ParseDir(path), path[Len(path)], Readdir(ParseDir(path)))

\* afs.readFile(await this.normalizePath(path) ?? "", encoding) in its try.
ReadNormalized(n) ==
    IF n.st = "ok" THEN afsReadFile(n.path) ELSE [ok |-> FALSE, content |-> <<>>]

\* The message of an error: its text, and the values put into the text.
NoMessage == [text |-> "none", names |-> <<>>]

\* The message of the PluginError readFile throws (index.ts line 413):
\* `The path "${path}" doesn't exist!`.
NotFoundMessage(path) == [text |-> "The path doesn't exist!", names |-> <<path>>]

\* The message of the error afs.readFile rejects with: ENOENT and the path.
ErrnoMessage(path) == [text |-> "ENOENT", names |-> <<path>>]

\* readFile(path): the content of the normalized path, or the PluginError
\* "The path ... does not exist" for whatever was thrown.
readFile(path) == ReadNormalized(normalizePath(path))

\* The transformation given to execute(): a pipeline that puts a banner
\* before the content of the file it is fed.
transformation(content) == <<"h">> \o content

\* transform(path, transformation): what the pipeline yields for vfs.src(path);
\* vfs.src of a path that is not there emits its error on the source, no
\* file reaches the collecting transform and the promise is never settled.
transform(path) ==
    IF path \in DiskFiles
    THEN [st |-> "ok", content |-> transformation(Disk(path))]
    ELSE [st |-> "hang", content |-> <<>>]

\* getDependencyContent that reads the file whatever transformation it is given.
\* What readFile returned or threw, as getDependencyContent hands it on.
Read(rd) == [st |-> IF rd.ok THEN "ok" ELSE "err", content |-> rd.content]

\* getDependencyContent that reads the file whatever transformation it is given.
getDependencyContentRaw(path, hook) == Read(readFile(path))

\* getDependencyContent(path, transformation)
getDependencyContent(path, hook) ==
    IF hook THEN transform(path) ELSE Read(readFile(path))

(***************************************************************************)
(* Importer.replace.                                                       *)
(***************************************************************************)
\* A nested replace that keeps resolving against the referencing file.
NestedFileOuter(dPath, path) == path

\* The file a nested replace resolves against: new File({ path: dPath }).
NestedFile(dPath, path) == dPath

\* A nested replace handed the stack of the replace that calls it.
NestedStackOuter(stack) == stack

\* The stack a nested replace starts on: resolveStack: [] (index.ts line 332).
NestedStack(stack) == <<>>

\* The dependency path of a match (index.ts line 311).
DependencyPath(path, value) == PathResolve(ParseDir(path), MatchGroup(value))

\* What a replace carries besides its options: the cache it writes, the
\* history, and whether it was given a transformation.
Env(cch, inl, recv, tr) == [cache |-> cch, inl |-> inl, recv |-> recv, tr |-> tr]

\* A replace that lists the referencing file before it has the content.
EnvOnThrowListed(env, dPath, path) ==
    [env EXCEPT !.cache = appendCache(env.cache, dPath, path)]

\* What a replace leaves when getDependencyContent throws (index.ts line
\* 326): nothing after the await has run, the cache is as it was.
EnvOnThrow(env, dPath, path) == env

RECURSIVE replace(_, _, _, _, _, _)
RECURSIVE Iterate(_, _, _, _, _, _)
\* One turn of the for loop of replace, for the match `value` of the file at
\* `path`, on the working content; env carries the cache, the history and
\* tr, TRUE when the replace options hold a transformation.
\* st is "ok", "err" (readFile threw), "hang" (transform never settles) or
\* "loop" (the recursion never ends).
Iterate(path, content, value, stack, env, fuel) ==
    LET dPath == DependencyPath(path, value)
    IN  IF options.importOnce /\ dPath \in SeqToSet(stack)
        THEN [st |-> "ok", content |-> RemoveDirective(content, value),
              stack |-> stack, env |-> env]
        ELSE LET stack1 == IF options.importOnce THEN Append(stack, dPath) ELSE stack
                 rd == getDependencyContent(dPath, env.tr)
             IN  IF rd.st # "ok"
                 THEN [st |-> rd.st, content |-> content, stack |-> stack1,
                       env |-> EnvOnThrow(env, dPath, path),
                       msg |-> IF rd.st = "err" THEN NotFoundMessage(dPath)
                               ELSE NoMessage]
                 ELSE LET sub ==
                            IF options.importRecursively
                            THEN IF fuel = 0
                                 THEN [st |-> "loop", content |-> <<>>, stack |-> <<>>,
                                       env |-> env]
                                 ELSE replace(NestedFile(dPath, path), rd.content,
                                              matchAll(rd.content), NestedStack(stack1), env,
                                              fuel - 1)
                            ELSE [st |-> "ok", content |-> rd.content, stack |-> <<>>,
                                  env |-> env]
                      IN  IF sub.st # "ok"
                          THEN [st |-> sub.st, content |-> content, stack |-> stack1,
                                env |-> sub.env,
                                msg |-> IF sub.st = "err" THEN sub.msg ELSE NoMessage]
                          ELSE [st |-> "ok",
                                content |-> ReplaceDirective(content, value, sub.content),
                                stack |-> stack1,
                                env |-> [cache |-> appendCache(sub.env.cache, dPath, path),
                                         inl |-> sub.env.inl
                                                   \cup {<<dPath, PathResolve(<<>>, path)>>},
                                         recv |-> sub.env.recv \cup {dPath},
                                         tr |-> env.tr]]

\* replace({file, content, resolveStack}): the loop over the matches.
replace(path, content, matches, stack, env, fuel) ==
    IF matches = <<>>
    THEN [st |-> "ok", content |-> content, stack |-> stack, env |-> env]
    ELSE LET r == Iterate(path, content, Head(matches), stack, env, fuel)
         IN  IF r.st # "ok" THEN r
             ELSE replace(path, r.content, Tail(matches), r.stack, r.env, fuel)

(***************************************************************************)
(* Files and handler invocations.                                          *)
(***************************************************************************)
\* A vinyl File as the handlers see it: mode is "buffer", "stream" or "null".
File(path, mode, contents) == [path |-> path, mode |-> mode, contents |-> contents]

\* A file pushed downstream.  A stream file carries the transform it reads.
Pushed(role, path, mode, contents, sid) ==
    [role |-> role, path |-> path, mode |-> mode, contents |-> contents, sid |-> sid]

NoPass == [on |-> FALSE, path |-> <<>>, cur |-> <<>>, todo |-> <<>>, stack |-> <<>>,
           recv |-> {}, tr |-> FALSE]

\* resolveBuffer(file, innerPl): one replace over the whole content with a
\* new stack.
resolveBuffer(path, contents, tr) ==
    [on |-> TRUE, path |-> path, cur |-> contents, todo |-> matchAll(contents),
     stack |-> <<>>, recv |-> {}, tr |-> tr]

IdleCall ==
    [op |-> "none", st |-> "idle", file |-> File(<<>>, "null", Null),
     deps |-> <<>>, pend |-> <<>>, list |-> <<>>, pass |-> NoPass,
     out |-> <<>>, err |-> "none", readFailed |-> FALSE, added |-> FALSE,
     msg |-> NoMessage]

\* validate without its test of file.path.
validateNoPathCheck(file) == IF file.mode = "null" THEN "null" ELSE "ok"

\* validate without its test of file.isNull().
validateNoNullCheck(file) == IF file.path = Undefined THEN "nopath" ELSE "ok"

\* validate(stream, file, cb)
validate(file) ==
    IF file.mode = "null" THEN "null"
    ELSE IF file.path = Undefined THEN "nopath"
    ELSE "ok"

\* A catch block that still pushes the file with what was resolved so far.
HandlerCatchPush(call) ==
    [call EXCEPT !.st = "error", !.err = "PluginError", !.pass.on = FALSE,
                 !.out = <<Pushed("exec", call.file.path, "buffer", call.pass.cur, 0)>>]

\* A catch block that pushes the dependents resolved before the failure.
HandlerCatchEmitted(call) ==
    [call EXCEPT !.st = "error", !.err = "PluginError", !.pass.on = FALSE,
                 !.out = call.list]

\* The catch blocks of execute and updateDependency: cb(new PluginError(...)).
HandlerCatch(call) ==
    [call EXCEPT !.st = "error", !.err = "PluginError", !.pass.on = FALSE]

\* The primary pushed after its own directives were resolved.
PrimaryOutResolved(file) ==
    Pushed("primary", file.path, file.mode,
           replace(file.path, file.contents, matchAll(file.contents), <<>>,
                   Env(cache, {}, {}, FALSE), 0).content,
           0)

\* The primary file as updateDependency pushes it: this.push(file).
PrimaryOut(file) == Pushed("primary", file.path, file.mode, file.contents, 0)

\* The two policy tests of buffer mode exchanged.
BufferUpdateOutputSwapped(list, file) ==
    (IF options.dependencyOutput # "dependant" THEN list ELSE <<>>)
    \o (IF options.dependencyOutput # "primary"
        THEN <<Pushed("primary", file.path, file.mode, file.contents, 0)>> ELSE <<>>)

\* What updateDependency pushes in buffer mode (index.ts lines 124-128).
BufferUpdateOutput(list, file) ==
    (IF options.dependencyOutput # "primary" THEN list ELSE <<>>)
    \o (IF options.dependencyOutput # "dependant" THEN <<PrimaryOut(file)>> ELSE <<>>)

\* Stream mode obeying options.dependencyOutput as buffer mode does.
StreamUpdateOutputByPolicy(list, file) ==
    (IF options.dependencyOutput # "primary" THEN list ELSE <<>>)
    \o (IF options.dependencyOutput # "dependant"
        THEN <<Pushed("primary", file.path, file.mode, file.contents, 0)>> ELSE <<>>)

\* What updateDependency pushes in stream mode (index.ts lines 135-136).
StreamUpdateOutput(list, file) == list \o <<PrimaryOut(file)>>

\* iterateCache: the entries cached under the encoded resolved path.
iterateCache(path) == CacheEntries(cache, encode(PathResolve(<<>>, path)))

RECURSIVE Settle(_)
\* Runs a buffer-mode handler on from the end of an await up to its next
\* await: a finished replace is collected, updateDependency goes on to its
\* next cached dependent (resolveBufferRef reads it with afs.readFile and
\* resolves it without a transformation), and the handler ends when nothing
\* is left.
Settle(call) ==
    IF call.pass.on /\ call.pass.todo # <<>> THEN call
    ELSE IF call.pass.on
    THEN IF call.op = "execute"
         THEN [call EXCEPT !.st = "done", !.pass.on = FALSE,
                           !.out = <<Pushed("exec", call.file.path, "buffer",
                                            call.pass.cur, 0)>>]
         ELSE Settle([call EXCEPT !.pass.on = FALSE,
                                  !.list = Append(@, Pushed("dep", call.pass.path, "buffer",
                                                            call.pass.cur, 0))])
    ELSE IF call.pend = <<>>
    THEN [call EXCEPT !.st = "done", !.out = BufferUpdateOutput(call.list, call.file)]
    ELSE LET ref == Head(call.pend)
             rd  == afsReadFile(ref)
         IN  IF ~rd.ok THEN HandlerCatch([call EXCEPT !.readFailed = TRUE,
                                                      !.msg = ErrnoMessage(ref)])
             ELSE Settle([call EXCEPT !.pend = Tail(@),
                                      !.pass = resolveBuffer(ref, rd.content, FALSE)])

\* TRUE when `new` holds an entry that `old` lacks whose referencing file is `file`.
AddsEntryOf(file, old, new) ==
    \E key \in DOMAIN new :
        file \in SeqToSet(new[key]) /\ file \notin SeqToSet(CacheEntries(old, key))

\* The pairs <<D, F>> a finished execute pass of F leaves in the history.
ReceivedBy(op, path, recv) ==
    IF op = "execute" THEN {<<d, PathResolve(<<>>, path)>> : d \in recv} ELSE {}

(***************************************************************************)
(* Streams: the transforms of resolveStream.                               *)
(***************************************************************************)
IdleStream ==
    [st |-> "idle", op |-> "none", path |-> <<>>, primary |-> <<>>, src |-> <<>>,
     rest |-> <<>>, busy |-> FALSE, cur |-> <<>>, todo |-> <<>>, arr |-> 0,
     out |-> <<>>, recv |-> {}, solo |-> FALSE, added |-> FALSE, tr |-> FALSE,
     chunks |-> 0]

\* TRUE when no transform is reading or can still read.
NoStreamOpen == \A s \in StreamIds : streams[s].st # "open"

\* resolveStream(file, innerPl) piped from a source that will deliver `src`.
resolveStream(op, path, primary, src, solo, tr) ==
    [IdleStream EXCEPT !.st = "open", !.op = op, !.path = path, !.primary = primary,
                       !.src = src, !.rest = src, !.solo = solo, !.tr = tr]

\* resolveStreamRef(file): the transform fed by fs.createReadStream(file.path);
\* a file that cannot be opened delivers nothing and never ends.
resolveStreamRef(path, primary) ==
    IF path \in DiskFiles
    THEN resolveStream("update", path, primary, Disk(path), FALSE, FALSE)
    ELSE [IdleStream EXCEPT !.st = "stalled", !.op = "update", !.path = path,
                            !.primary = primary]

\* The slots a new execute stream may take: the lowest one not open, or any.
StreamSlots ==
    IF \E s \in StreamIds : streams[s].st # "open"
    THEN {CHOOSE s \in StreamIds :
            streams[s].st # "open" /\ \A t \in StreamIds : streams[t].st # "open" => s <= t}
    ELSE StreamIds

\* A transform that has ended or stalled does nothing more; the next handler
\* invocation finds its slot empty.
Sweep(strs) ==
    [t \in StreamIds |-> IF strs[t].st = "open" THEN strs[t] ELSE IdleStream]

\* Arrays still held by a replace in progress.
Held(strs) == {strs[s].arr : s \in {t \in StreamIds : strs[t].st = "open" /\ strs[t].busy}}

\* Forget arrays nothing refers to any more.
Collect(arrs, strs, current) ==
    [a \in ArrIds |-> IF a = current \/ a \in Held(strs) THEN arrs[a] ELSE <<>>]

(***************************************************************************)
(* Inputs.                                                                 *)
(***************************************************************************)
\* The texts contents are made of.  An engine that requires extensions is
\* given "m", which no file is called; an engine that infers them is given
\* "m", which two entries start with, and "q", which none does.
InputTokens ==
    IF options.requireExtension THEN {"x", "@a", "@c", "@s/b", "@m"}
    ELSE {"x", "@c", "@s/b", "@m", "@q"}

Contents == UNION {[1..n -> InputTokens] : n \in 0..MaxLen}

\* Contents a streamed file is given.
StreamContents ==
    IF options.requireExtension
    THEN {<<>>, <<"x", "@c">>, <<"@a", "@c">>, <<"@c", "@c">>, <<"@c", "@m">>,
          <<"@s/b", "@c">>}
    ELSE {<<>>, <<"x", "@c">>, <<"@m", "@c">>, <<"@m", "@m">>, <<"@m", "@q">>,
          <<"@s/b", "@c">>}

\* Files written to execute(): /r/p by its relative path, /r/a by its
\* absolute path; a null file; a file without a path.
ExecFiles ==
    {File(p, pipeline, c) :
        p \in {<<"p">>, PathA},
        c \in IF pipeline = "buffer" THEN Contents ELSE StreamContents}
    \cup {File(PathA, "null", Null), File(Undefined, pipeline, <<"x">>)}

\* Files written to updateDependency(): a dependency as it is on disk.
UpdateFiles ==
    {File(p, pipeline, Disk(PathResolve(<<>>, p))) : p \in {<<"c">>, PathA, PathSB}}
    \cup {File(PathC, "null", Null), File(Undefined, pipeline, <<"x">>)}

(***************************************************************************)
(* Initial state: the engine after construction.                           *)
(***************************************************************************)
\* No content is put to String.prototype.replace on its own.
NoSample ==
    [content |-> <<>>, value |-> "", dContent |-> <<>>, out |-> <<>>, done |-> FALSE]

\* new Importer(object): the fields as their initializers leave them and the
\* options as the constructor leaves them; nothing has been written to it.
Constructed(object) ==
    /\ supplied = object
    /\ options = Constructor(object)
    /\ cache = [k \in {} |-> <<>>]
    /\ streamResolveStack = 0
    /\ arrays = [a \in ArrIds |-> <<>>]
    /\ calls = [c \in CallIds |-> IdleCall]
    /\ streams = [s \in StreamIds |-> IdleStream]
    /\ ncalls = 0
    /\ inlined = {}
    /\ received = {}

\* Options objects that pass the three policy options and leave the rest out.
PolicyObjects ==
    [importOnce : BOOLEAN, importRecursively : BOOLEAN,
     dependencyOutput : {"primary", "dependant", "all"}]

\* An engine that requires extensions, used without a transformation.
Init ==
    /\ \E object \in PolicyObjects : Constructed(object)
    /\ pipeline \in {"buffer", "stream"}
    /\ innerPl = FALSE
    /\ sample = NoSample

\* The same engine, its execute() given a transformation.
InitHook ==
    /\ \E object \in PolicyObjects : Constructed(object)
    /\ pipeline \in {"buffer", "stream"}
    /\ innerPl = TRUE
    /\ sample = NoSample

\* An engine that infers extensions.
InitExt ==
    /\ \E object \in PolicyObjects : Constructed(object @@ [requireExtension |-> FALSE])
    /\ pipeline \in {"buffer", "stream"}
    /\ innerPl = FALSE
    /\ sample = NoSample

\* An engine made from any options object, fed buffer files.
InitCtor ==
    /\ \E object \in OptionObjects : Constructed(object)
    /\ pipeline = "buffer"
    /\ innerPl = FALSE
    /\ sample = NoSample

(***************************************************************************)
(* execute(): the handler up to its first await.                           *)
(***************************************************************************)
ExecuteHandler(file, s, tr) ==
    LET base == [IdleCall EXCEPT !.op = "execute", !.file = file]
        v    == validate(file)
    IN  CASE v = "null" ->
               [base EXCEPT !.st = "done",
                            !.out = <<Pushed("exec", file.path, "null", Null, 0)>>]
          [] v = "nopath" -> [base EXCEPT !.st = "error", !.err = "InvalidInput"]
          [] v = "ok" /\ file.mode = "buffer" ->
               Settle([base EXCEPT !.st = "run",
                                   !.pass = resolveBuffer(file.path, file.contents, tr)])
          [] OTHER ->
               [base EXCEPT !.st = "done",
                            !.out = <<Pushed("exec", file.path, "stream", <<>>, s)>>]

Execute(c, file, s) ==
    /\ ncalls < MaxCalls
    /\ calls[c].st # "run"
    /\ ncalls' = ncalls + 1
    /\ calls' = [calls EXCEPT ![c] = ExecuteHandler(file, s, innerPl)]
    /\ streams' =
         IF validate(file) = "ok" /\ file.mode = "stream"
         THEN [t \in StreamIds |->
                 IF t = s
                 THEN resolveStream("execute", file.path, <<>>, file.contents,
                                    NoStreamOpen /\ arrays[streamResolveStack] = <<>>,
                                    innerPl)
                 ELSE [Sweep(streams)[t] EXCEPT !.solo = FALSE]]
         ELSE Sweep(streams)
    /\ arrays' = Collect(arrays, streams', streamResolveStack)
    /\ UNCHANGED <<settings, cache, streamResolveStack, inlined, received>>

(***************************************************************************)
(* updateDependency(): the handler up to its first await.                  *)
(***************************************************************************)
UpdateHandler(file) ==
    LET base == [IdleCall EXCEPT !.op = "update", !.file = file]
        v    == validate(file)
        deps == iterateCache(file.path)
    IN  CASE v = "null" ->
               [base EXCEPT !.st = "done",
                            !.out = <<Pushed("primary", file.path, "null", Null, 0)>>]
          [] v = "nopath" -> [base EXCEPT !.st = "error", !.err = "InvalidInput"]
          [] v = "ok" /\ file.mode = "buffer" ->
               Settle([base EXCEPT !.st = "run", !.deps = deps, !.pend = deps])
          [] OTHER ->
               [base EXCEPT !.st = "done", !.deps = deps,
                            !.out = StreamUpdateOutput(
                                        [i \in 1..Len(deps) |->
                                            Pushed("dep", deps[i], "stream", <<>>, i)],
                                        file)]

UpdateDependency(c, file) ==
    /\ ncalls < MaxCalls
    /\ calls[c].st # "run"
    /\ validate(file) = "ok" => Len(iterateCache(file.path)) <= Cardinality(StreamIds)
    /\ ncalls' = ncalls + 1
    /\ calls' = [calls EXCEPT ![c] = UpdateHandler(file)]
    /\ streams' =
         IF validate(file) = "ok" /\ file.mode = "stream" /\ iterateCache(file.path) # <<>>
         THEN [t \in StreamIds |->
                 IF t <= Len(iterateCache(file.path))
                 THEN resolveStreamRef(iterateCache(file.path)[t],
                                       PathResolve(<<>>, file.path))
                 ELSE [Sweep(streams)[t] EXCEPT !.solo = FALSE]]
         ELSE Sweep(streams)
    /\ arrays' = Collect(arrays, streams', streamResolveStack)
    /\ UNCHANGED <<settings, cache, streamResolveStack, inlined, received>>

(***************************************************************************)
(* A buffer-mode handler resumes: one turn of the loop of replace.         *)
(***************************************************************************)
PassStep(c) ==
    /\ calls[c].st = "run"
    /\ LET call == calls[c]
           ps   == call.pass
           r    == Iterate(ps.path, ps.cur, Head(ps.todo), ps.stack,
                           Env(cache, inlined, ps.recv, ps.tr), MaxDepth)
           stepped == [call EXCEPT
                         !.pass.cur = r.content, !.pass.todo = Tail(ps.todo),
                         !.pass.stack = r.stack, !.pass.recv = r.env.recv,
                         !.added = @ \/ (call.op = "update"
                                          /\ AddsEntryOf(PathResolve(<<>>, call.file.path),
                                                         cache, r.env.cache))]
           next == CASE r.st = "ok"  -> Settle(stepped)
                     [] r.st = "err" -> HandlerCatch([stepped EXCEPT !.readFailed = TRUE,
                                                                     !.msg = r.msg])
                     [] OTHER        -> [stepped EXCEPT !.st = "hung"]
       IN  /\ calls' = [calls EXCEPT ![c] = next]
           /\ cache' = r.env.cache
           /\ inlined' = r.env.inl
           /\ received' = received \cup
                 (IF next.st = "done" /\ r.st = "ok"
                  THEN ReceivedBy(call.op, call.file.path, r.env.recv) ELSE {})
    /\ UNCHANGED <<settings, streamResolveStack, arrays, streams, ncalls>>

(***************************************************************************)
(* The transform of resolveStream.                                         *)
(***************************************************************************)
\* A new array for the chunk in hand, where one is free.
ChunkStackNew ==
    IF \E a \in ArrIds : a # streamResolveStack /\ a \notin Held(streams)
    THEN CHOOSE a \in ArrIds : a # streamResolveStack /\ a \notin Held(streams)
    ELSE streamResolveStack

\* resolveStack : that._streamResolveStack, read when the chunk arrives.
ChunkStack == streamResolveStack

\* The source delivers the next chunk, the first k tokens of what is left;
\* chunks counts the chunks delivered.
StreamChunk(s, k) ==
    /\ streams[s].st = "open"
    /\ ~streams[s].busy
    /\ k \in 1..Len(streams[s].rest)
    /\ LET str   == streams[s]
           chunk == SubSeq(str.rest, 1, k)
           rest  == SubSeq(str.rest, k + 1, Len(str.rest))
       IN  streams' = [streams EXCEPT ![s] =
              IF matchAll(chunk) = <<>>
              THEN [str EXCEPT !.rest = rest, !.out = @ \o chunk, !.chunks = @ + 1]
              ELSE [str EXCEPT !.rest = rest, !.busy = TRUE, !.cur = chunk,
                               !.todo = matchAll(chunk), !.arr = ChunkStack,
                               !.chunks = @ + 1]]
    /\ UNCHANGED <<settings, cache, streamResolveStack, arrays, calls, ncalls,
                   inlined, received>>

\* One turn of the loop of replace on the chunk in hand.
StreamStep(s) ==
    /\ streams[s].st = "open"
    /\ streams[s].busy
    /\ \E r \in {Iterate(streams[s].path, streams[s].cur, Head(streams[s].todo),
                          arrays[streams[s].arr],
                          Env(cache, inlined, {}, streams[s].tr), MaxDepth)} :
       LET str == streams[s]
           stepped == [str EXCEPT
                         !.cur = r.content, !.todo = Tail(str.todo),
                         !.recv = @ \cup r.env.recv,
                         !.added = @ \/ (str.op = "update"
                                          /\ AddsEntryOf(str.primary, cache, r.env.cache))]
           next == CASE r.st = "ok" /\ Tail(str.todo) = <<>> ->
                          [stepped EXCEPT !.busy = FALSE, !.out = @ \o r.content,
                                          !.cur = <<>>]
                     [] r.st = "ok"  -> stepped
                     [] r.st = "err" -> [stepped EXCEPT !.st = "stalled", !.busy = FALSE]
                     [] OTHER        -> [stepped EXCEPT !.st = "hung", !.busy = FALSE]
       IN  /\ streams' = [streams EXCEPT ![s] = next]
           /\ arrays' = Collect([arrays EXCEPT ![str.arr] = r.stack], streams',
                                streamResolveStack)
           /\ cache' = r.env.cache
           /\ inlined' = r.env.inl
           /\ received' = received \cup
                 (IF r.st = "ok" THEN ReceivedBy(str.op, str.path, r.env.recv) ELSE {})
    /\ UNCHANGED <<settings, streamResolveStack, calls, ncalls>>

\* An "end" listener that leaves the stack as it is.
EndStackKept(stack) == stack

\* What the "end" listener leaves this._streamResolveStack to be: [].
EndStack(stack) == <<>>

\* The readable side has been read to its end: the "end" listener runs,
\* this._streamResolveStack = [].
StreamEnd(s) ==
    /\ streams[s].st = "open"
    /\ ~streams[s].busy
    /\ streams[s].rest = <<>>
    /\ streams' = [streams EXCEPT ![s].st = "ended"]
    /\ LET held == Held(streams')
           new  == IF streamResolveStack \notin held THEN streamResolveStack
                   ELSE CHOOSE a \in ArrIds :
                          a \notin held /\ \A b \in ArrIds : b \notin held => a <= b
       IN  /\ streamResolveStack' = new
           /\ arrays' = Collect([arrays EXCEPT
                                    ![new] = EndStack(arrays[streamResolveStack])],
                                 streams', new)
    /\ UNCHANGED <<settings, cache, calls, ncalls, inlined, received>>

Next ==
    \/ \E c \in CallIds, file \in ExecFiles :
          \E s \in (IF validate(file) = "ok" /\ file.mode = "stream"
                    THEN StreamSlots ELSE {1}) : Execute(c, file, s)
    \/ \E c \in CallIds, file \in UpdateFiles : UpdateDependency(c, file)
    \/ \E c \in CallIds : PassStep(c)
    \/ \E s \in StreamIds, k \in 1..MaxLen + 1 : StreamChunk(s, k)
    \/ \E s \in StreamIds : StreamStep(s)
    \/ \E s \in StreamIds : StreamEnd(s)

Spec == Init /\ [][Next]_vars

\* execute() with a transformation.
SpecHook == InitHook /\ [][Next]_vars

\* Extension inference.
SpecExt == InitExt /\ [][Next]_vars

\* Stream files written to an engine made without options: the
\* continuation of a replace that awaits a read is run in the end.
LiveFiles ==
    {File(<<"p">>, "stream", c) : c \in {<<"x", "@c">>, <<"@c", "@c">>, <<"@c", "@m">>}}

InitLive ==
    /\ Constructed(<<>>)
    /\ pipeline = "stream"
    /\ innerPl = FALSE
    /\ sample = NoSample

NextLive ==
    \/ \E c \in CallIds, file \in LiveFiles, s \in StreamSlots : Execute(c, file, s)
    \/ \E s \in StreamIds, k \in 1..MaxLen + 1 : StreamChunk(s, k)
    \/ \E s \in StreamIds : StreamStep(s)
    \/ \E s \in StreamIds : StreamEnd(s)

SpecLive ==
    InitLive /\ [][NextLive]_vars /\ \A s \in StreamIds : WF_vars(StreamStep(s))

\* Buffer files written to execute() under a path that is not on disk when
\* updateDependency reads its dependents again.
GoneFiles == {File(PathM, "buffer", c) : c \in Contents}

InitUpd == Init /\ pipeline = "buffer"

NextUpd ==
    \/ \E c \in CallIds, file \in GoneFiles : Execute(c, file, 1)
    \/ \E c \in CallIds, file \in UpdateFiles : UpdateDependency(c, file)
    \/ \E c \in CallIds : PassStep(c)

SpecUpd == InitUpd /\ [][NextUpd]_vars

\* Files whose directives name a dependency with and without its extension,
\* written to an engine that infers extensions.
SpelledTokens == {"x", "@m", "@m.x", "@n.x"}

SpelledFiles ==
    {File(<<"p">>, "buffer", c) : c \in UNION {[1..n -> SpelledTokens] : n \in 0..MaxLen}}

\* The dependency as it is on disk, written to updateDependency().
SpelledUpdates == {File(p, "buffer", Disk(p)) : p \in {PathMX, PathNX}}

InitSpelled == InitExt /\ pipeline = "buffer"

NextSpelled ==
    \/ \E c \in CallIds, file \in SpelledFiles : Execute(c, file, 1)
    \/ \E c \in CallIds, file \in SpelledUpdates : UpdateDependency(c, file)
    \/ \E c \in CallIds : PassStep(c)

SpecSpelled == InitSpelled /\ [][NextSpelled]_vars

\* Buffered execute() on an engine made from any options object.
NextCtor ==
    \/ \E c \in CallIds, file \in ExecFiles : Execute(c, file, 1)
    \/ \E c \in CallIds : PassStep(c)

SpecCtor == InitCtor /\ [][NextCtor]_vars

(***************************************************************************)
(* String.prototype.replace on its own: line 337 put to every dependency  *)
(* content up to MaxSample tokens.                                         *)
(***************************************************************************)
\* The texts a dependency content is made of: "$", what may follow it to
\* make a replacement pattern, and plain text.
SampleTokens == {"$", "&", "bq", "sq", "1", "x"}

SampleContents == UNION {[1..n -> SampleTokens] : n \in 0..MaxSample}

InitSample ==
    /\ Constructed(<<>>)
    /\ pipeline = "buffer"
    /\ innerPl = FALSE
    /\ \E content \in {<<"@c">>, <<"x", "@c", "z">>}, dContent \in SampleContents :
          sample = [NoSample EXCEPT !.content = content, !.value = "@c",
                                    !.dContent = dContent]

\* content = content.replace(value, dContent.replace(/\$/g, "$$$$"))
ReplaceSample ==
    /\ ~sample.done
    /\ sample' = [sample EXCEPT
                    !.out = ReplaceDirective(sample.content, sample.value, sample.dContent),
                    !.done = TRUE]
    /\ UNCHANGED <<options, cache, streamResolveStack, arrays, calls, streams, ncalls,
                   inlined, received, pipeline, supplied, innerPl>>

SpecSample == InitSample /\ [][ReplaceSample]_vars

(***************************************************************************)
(* Properties.                                                             *)
(***************************************************************************)
\* The path a handler was given, resolved.
Resolved(path) == PathResolve(<<>>, path)

\* A buffer-mode execute() invocation that has pushed its file.
BufferExecuteDone(c) ==
    /\ calls[c].op = "execute"
    /\ calls[c].file.mode = "buffer"
    /\ calls[c].st = "done"

RECURSIVE SpliceFrom(_, _, _, _)
\* The content with every directive replaced where it stands, left to right,
\* by the content of the file it names (resolved in its turn, down to `depth`
\* levels, when imports are recursive); a directive whose path an earlier one
\* of the same content already named leaves nothing when imports are once.
SpliceFrom(path, content, seen, depth) ==
    IF content = <<>> THEN <<>>
    ELSE IF Head(content) \notin Directives
    THEN <<Head(content)>> \o SpliceFrom(path, Tail(content), seen, depth)
    ELSE LET d == PathResolve(ParseDir(path), MatchGroup(Head(content)))
         IN  IF options.importOnce /\ d \in seen
             THEN SpliceFrom(path, Tail(content), seen, depth)
             ELSE (IF options.importRecursively /\ depth > 0
                   THEN SpliceFrom(d, Disk(d), {}, depth - 1)
                   ELSE Disk(d))
                  \o SpliceFrom(path, Tail(content), seen \cup {d}, depth)

\* How often x occurs in the sequence s.
Count(s, x) == Cardinality({i \in 1..Len(s) : s[i] = x})

\* C1: a buffered execute pass without recursive import outputs the original
\* content with every directive replaced at its own position by the content
\* of the file it names, whatever that content is.
C1_BufferedSplice ==
    \A c \in CallIds :
        BufferExecuteDone(c) /\ ~options.importRecursively
        => calls[c].out[1].contents
             = SpliceFrom(calls[c].file.path, calls[c].file.contents, {}, 0)

\* C2: with import-once, a pass over content holding the same directive twice
\* (and no other) inlines the dependency once, leaves nothing of the second
\* directive, and leaves one dependent entry for the dependency.
C2_ImportOnceTwice ==
    \A c \in CallIds :
        LET content == calls[c].file.contents
            ds      == matchAll(content)
        IN  (/\ BufferExecuteDone(c)
             /\ options.importOnce
             /\ Len(ds) = 2
             /\ ds[1] = ds[2])
            => LET d == PathResolve(ParseDir(calls[c].file.path), MatchGroup(ds[1]))
               IN  /\ calls[c].out[1].contents
                        = SpliceFrom(calls[c].file.path, content, {}, MaxDepth)
                   /\ Count(CacheEntries(cache, encode(d)), Resolved(calls[c].file.path)) = 1

\* C3: for every file P that inlined dependency D, the dependents cached
\* under D's resolved path hold P exactly once, however often P inlined D.
C3_DependentOnce ==
    \A pair \in inlined :
        Count(CacheEntries(cache, encode(pair[1])), pair[2]) = 1

\* C3 witness: with import-once off one pass has inlined /r/c twice into /r/p.
C3_Witness ==
    \E c \in CallIds :
        /\ BufferExecuteDone(c)
        /\ ~options.importOnce
        /\ calls[c].file.contents = <<"@c", "@c">>
        /\ calls[c].file.path = <<"p">>
        /\ <<PathC, PathP>> \in inlined

\* An updateDependency() invocation on a file that passed validate.
UpdateCall(c, mode) ==
    /\ calls[c].op = "update"
    /\ calls[c].file.mode = mode
    /\ calls[c].file.path # Undefined

\* TRUE when s is the start of t.
IsPrefix(s, t) == Len(s) <= Len(t) /\ SubSeq(t, 1, Len(s)) = s

\* The roles and paths of pushed files, in order.
RolesAndPaths(out) == [i \in 1..Len(out) |-> <<out[i].role, out[i].path, out[i].mode>>]

\* C4: a buffered updateDependency on primary P whose cache entry holds the
\* dependents S, when it completes, has pushed as buffer files exactly P
\* under 'primary', exactly one file per member of S and not P under
\* 'dependant', exactly S and then P under 'all'; S is empty when P has no entry.
C4_BufferPolicy ==
    \A c \in CallIds :
        UpdateCall(c, "buffer") /\ calls[c].st = "done"
        => LET P    == calls[c].file.path
               S    == calls[c].deps
               key  == encode(Resolved(P))
               deps == [i \in 1..Len(S) |-> <<"dep", S[i], "buffer">>]
               prim == <<<<"primary", P, "buffer">>>>
           IN  /\ IsPrefix(S, CacheEntries(cache, key))
               /\ key \notin DOMAIN cache => S = <<>>
               /\ RolesAndPaths(calls[c].out)
                    = CASE options.dependencyOutput = "primary"   -> prim
                        [] options.dependencyOutput = "dependant" -> deps
                        [] OTHER                                  -> deps \o prim

\* C4 witness: an update with two cached dependents has pushed only those
\* two under 'dependant'.
C4_Witness ==
    \E c \in CallIds :
        /\ UpdateCall(c, "buffer")
        /\ calls[c].st = "done"
        /\ Len(calls[c].deps) = 2
        /\ options.dependencyOutput = "dependant"
        /\ Len(calls[c].out) = 2

\* C5: a streamed updateDependency pushes every cached dependent of the
\* primary and then the primary, each as a stream file, under every policy.
C5_StreamEmitsAll ==
    \A c \in CallIds :
        UpdateCall(c, "stream")
        => LET P == calls[c].file.path
               S == calls[c].deps
           IN  /\ calls[c].st = "done"
               /\ IsPrefix(S, CacheEntries(cache, encode(Resolved(P))))
               /\ encode(Resolved(P)) \notin DOMAIN cache => S = <<>>
               /\ RolesAndPaths(calls[c].out)
                    = [i \in 1..Len(S) |-> <<"dep", S[i], "stream">>]
                      \o <<<<"primary", P, "stream">>>>

\* C5 witness: under 'primary' a streamed update with two cached dependents
\* has pushed three stream files.
C5_Witness ==
    \E c \in CallIds :
        /\ UpdateCall(c, "stream")
        /\ Len(calls[c].deps) = 2
        /\ options.dependencyOutput = "primary"
        /\ Len(calls[c].out) = 3

\* The primary is pushed with the content it came in with.
PrimaryUntouched ==
    \A c \in CallIds :
        calls[c].op = "update"
        => \A i \in 1..Len(calls[c].out) :
              calls[c].out[i].role = "primary"
              => calls[c].out[i].contents = calls[c].file.contents

\* C6 as stated: the primary is pushed with the content it came in with, and
\* updateDependency adds no cache entry whose referencing file is the primary.
C6_PrimaryAddsNothing ==
    /\ PrimaryUntouched
    /\ \A c \in CallIds : calls[c].op = "update" => ~calls[c].added
    /\ \A s \in StreamIds : streams[s].op = "update" => ~streams[s].added

\* C6 amended: the primary is pushed with the content it came in with; a cache
\* entry with the primary as referencing file is added only by re-resolving
\* a cached dependent, when the primary is one of its own cached dependents
\* or imports are recursive.
C6_PrimaryPassThrough ==
    /\ PrimaryUntouched
    /\ \A c \in CallIds :
          calls[c].op = "update" /\ calls[c].added
          => \/ Resolved(calls[c].file.path) \in SeqToSet(calls[c].deps)
             \/ options.importRecursively
    /\ \A s \in StreamIds :
          streams[s].op = "update" /\ streams[s].added
          => \/ streams[s].primary = streams[s].path
             \/ options.importRecursively

\* C6 witness: an update has re-resolved a dependent and pushed it and the
\* primary, whose content holds a directive.
C6_Witness ==
    \E c \in CallIds :
        /\ UpdateCall(c, "buffer")
        /\ calls[c].st = "done"
        /\ calls[c].deps # <<>>
        /\ matchAll(calls[c].file.contents) # <<>>
        /\ \E i \in 1..Len(calls[c].out) : calls[c].out[i].role = "primary"
        /\ ~calls[c].added

\* C7: updateDependency on D re-resolves every file whose earlier execute
\* pass inlined D's content, directly or through a recursively inlined file.
C7_AllDependents ==
    \A c \in CallIds :
        UpdateCall(c, "buffer") /\ calls[c].st = "done"
        => \A pair \in received :
              pair[1] = Resolved(calls[c].file.path)
              => pair[2] \in SeqToSet(calls[c].deps)

\* A streamed execute pass that ran to its end alone on an engine with an
\* empty resolve stack.
StreamAlone(s) ==
    /\ streams[s].op = "execute"
    /\ streams[s].st = "ended"
    /\ streams[s].solo

\* C8: with recursive import, resolving a file that imports B, where B
\* imports C, puts C's content where B's directive stood inside B's content,
\* and that where the directive for B stood; B's directive is resolved from
\* B's own directory.
C8_RecursiveSplice ==
    /\ \A c \in CallIds :
          BufferExecuteDone(c) /\ options.importRecursively
          => calls[c].out[1].contents
               = SpliceFrom(calls[c].file.path, calls[c].file.contents, {}, MaxDepth)
    /\ \A s \in StreamIds :
          StreamAlone(s) /\ options.importRecursively
          => streams[s].out = SpliceFrom(streams[s].path, streams[s].src, {}, MaxDepth)

\* C8 witness: /r/p imports s/b, which imports ../c: the content of /r/c
\* stands inside that of /r/s/b.
C8_Witness ==
    \E c \in CallIds :
        /\ BufferExecuteDone(c)
        /\ options.importRecursively
        /\ calls[c].file.contents = <<"@s/b", "x">>
        /\ calls[c].out[1].contents = <<"$", "&", "z", "x">>

\* C9: a streamed pass run alone yields, for every chunking, the output the
\* buffered pass yields for the same content, path, options and disk.
C9_ModeEquivalence ==
    \A s \in StreamIds :
        StreamAlone(s)
        => LET b == replace(streams[s].path, streams[s].src, matchAll(streams[s].src),
                            <<>>, Env(cache, {}, {}, streams[s].tr), MaxDepth)
           IN  b.st = "ok" /\ streams[s].out = b.content

\* TRUE when some directive of the content names a file that is not on disk.
HasUnreadable(file) ==
    \E i \in 1..Len(file.contents) :
        /\ file.contents[i] \in Directives
        /\ PathResolve(ParseDir(file.path), MatchGroup(file.contents[i])) \notin DiskFiles

\* C10: a buffered execute pass with a directive whose dependency cannot be
\* read never pushes its file, and once the read has failed an error is
\* reported for the file.
C10_FailsAsAWhole ==
    \A c \in CallIds :
        calls[c].op = "execute" /\ calls[c].file.mode = "buffer"
          /\ calls[c].file.path # Undefined
        => /\ HasUnreadable(calls[c].file) => calls[c].out = <<>>
           /\ calls[c].readFailed
                => calls[c].st = "error" /\ calls[c].err = "PluginError"
                     /\ calls[c].out = <<>>

\* C10 witness: the pass inlined /r/c, then failed on /r/m.
C10_Witness ==
    \E c \in CallIds :
        /\ calls[c].op = "execute"
        /\ calls[c].file.contents = <<"@c", "@m">>
        /\ calls[c].readFailed
        /\ calls[c].st = "error"
        /\ calls[c].pass.cur = <<"$", "&", "@m">>

RECURSIVE AloneOutputs(_, _, _, _, _)
\* The outputs a streamed pass of the file yields when it is the only pass
\* on the engine, one for every way of cutting the content into chunks:
\* the chunks go through replace in order, with the stack the earlier
\* chunks left.
AloneOutputs(path, rest, stack, out, tr) ==
    IF rest = <<>> THEN {out}
    ELSE UNION {LET chunk == SubSeq(rest, 1, k)
                    r     == replace(path, chunk, matchAll(chunk), stack,
                                     Env(cache, {}, {}, tr), MaxDepth)
                IN  IF r.st = "ok"
                    THEN AloneOutputs(path, SubSeq(rest, k + 1, Len(rest)), r.stack,
                                      out \o r.content, tr)
                    ELSE {}
                : k \in 1..Len(rest)}

\* A streamed execute pass that was read to its end.
StreamDone(s) == streams[s].op = "execute" /\ streams[s].st = "ended"

\* A streamed execute pass whose replace threw.
StreamFailed(t) == streams[t].op = "execute" /\ streams[t].st = "stalled"

\* C11: a file whose pass completes on an engine where the pass of another
\* file has failed has the output it would have had alone.
C11_FailureIsolation ==
    \A s \in StreamIds, t \in StreamIds :
        (/\ StreamDone(s)
         /\ StreamFailed(t)
         /\ streams[t].path # streams[s].path)
        => streams[s].out
             \in AloneOutputs(streams[s].path, streams[s].src, <<>>, <<>>, streams[s].tr)

\* A handler invocation for a file with content and no path.
NoPathCall(c) ==
    /\ calls[c].op # "none"
    /\ calls[c].file.mode # "null"
    /\ calls[c].file.path = Undefined

\* C12: execute and updateDependency given a file with content and an
\* undefined path report an invalid-input error and push nothing, and the
\* step that handles the file leaves the cache and the resolve stack as
\* they were.
C12_InvalidInput ==
    /\ [](\A c \in CallIds :
            NoPathCall(c)
            => /\ calls[c].st = "error"
               /\ calls[c].err = "InvalidInput"
               /\ calls[c].out = <<>>
               /\ calls[c].deps = <<>>
               /\ ~calls[c].pass.on)
    /\ [][\A c \in CallIds :
            (ncalls' # ncalls /\ NoPathCall(c)')
            => /\ cache' = cache
               /\ streamResolveStack' = streamResolveStack
               /\ arrays'[streamResolveStack] = arrays[streamResolveStack]
               /\ \A s \in StreamIds : streams'[s].st = "open" => streams'[s] = streams[s]]_vars

\* C12 witness: a file without a path was refused by an engine whose cache
\* holds an entry.
C12_Witness ==
    \E c \in CallIds :
        /\ NoPathCall(c)
        /\ calls[c].st = "error"
        /\ DOMAIN cache # {}

\* A handler invocation for a file whose content is null.
NullCall(c) == calls[c].op # "none" /\ calls[c].file.mode = "null"

\* C13: execute and updateDependency given a null file push that file as
\* it is, report no error and look up no dependents, and the step that
\* handles the file leaves the cache as it was.
C13_NullPassThrough ==
    /\ [](\A c \in CallIds :
            NullCall(c)
            => /\ calls[c].st = "done"
               /\ calls[c].err = "none"
               /\ calls[c].deps = <<>>
               /\ Len(calls[c].out) = 1
               /\ calls[c].out[1].path = calls[c].file.path
               /\ calls[c].out[1].mode = "null"
               /\ calls[c].out[1].contents = calls[c].file.contents)
    /\ [][\A c \in CallIds :
            (ncalls' # ncalls /\ NullCall(c)')
            => /\ cache' = cache
               /\ \A s \in StreamIds : streams'[s].st = "open" => streams'[s] = streams[s]]_vars

\* C13 witness: updateDependency was given a null file whose path has cached
\* dependents.
C13_Witness ==
    \E c \in CallIds :
        /\ NullCall(c)
        /\ calls[c].op = "update"
        /\ iterateCache(calls[c].file.path) # <<>>
        /\ calls[c].st = "done"

\* The content a dependency is inlined as: what readFile yields for it,
\* resolved in its turn when imports are recursive.
Inlined(d) ==
    LET text == readFile(d).content
    IN  IF options.importRecursively
        THEN replace(d, text, matchAll(text), <<>>, Env(cache, {}, {}, FALSE), MaxDepth).content
        ELSE text

\* C14: the constructor keeps every option the caller passed, false
\* included, and gives its default to every option left out; an engine made
\* with importOnce false inlines both of two identical directives: the
\* output is as long as the dependency content taken twice.
C14_DefaultsOnlyForAbsent ==
    /\ \A key \in DOMAIN defaults :
          options[key] = IF key \in DOMAIN supplied THEN supplied[key] ELSE defaults[key]
    /\ \A c \in CallIds :
          LET content == calls[c].file.contents
          IN  (/\ BufferExecuteDone(c)
               /\ "importOnce" \in DOMAIN supplied
               /\ supplied.importOnce = FALSE
               /\ Len(content) = 2
               /\ content[1] \in Directives
               /\ content[2] = content[1])
              => Len(calls[c].out[1].contents)
                   = 2 * Len(Inlined(DependencyPath(calls[c].file.path, content[1])))

\* C14 witness: an engine made with importOnce false and nothing else has
\* inlined /r/c for both directives.
C14_Witness ==
    \E c \in CallIds :
        /\ BufferExecuteDone(c)
        /\ supplied = [importOnce |-> FALSE]
        /\ calls[c].file.contents = <<"@c", "@c">>
        /\ calls[c].out[1].contents = <<"$", "&", "$", "&">>

RECURSIVE SpliceHooked(_, _, _, _)
\* The content with every directive replaced where it stands by what the
\* transformation makes of the file it names (resolved in its turn, down to
\* `depth` levels, when imports are recursive); the text around the
\* directives is left as it is.
SpliceHooked(path, content, seen, depth) ==
    IF content = <<>> THEN <<>>
    ELSE IF Head(content) \notin Directives
    THEN <<Head(content)>> \o SpliceHooked(path, Tail(content), seen, depth)
    ELSE LET d == PathResolve(ParseDir(path), MatchGroup(Head(content)))
         IN  IF options.importOnce /\ d \in seen
             THEN SpliceHooked(path, Tail(content), seen, depth)
             ELSE (IF options.importRecursively /\ depth > 0
                   THEN SpliceHooked(d, transformation(Disk(d)), {}, depth - 1)
                   ELSE transformation(Disk(d)))
                  \o SpliceHooked(path, Tail(content), seen \cup {d}, depth)

\* TRUE when no directive of the content is also a text of the file another
\* directive of the content names.
NoEcho(path, content) ==
    \A i \in 1..Len(content), j \in 1..Len(content) :
        (content[i] \in Directives /\ content[j] \in Directives)
        => content[j] \notin SeqToSet(Disk(DependencyPath(path, content[i])))

FirstEntry(d) ==
    LET dir  == ParseDir(d)
        ls   == Readdir(dir).names
        hits == {i \in 1..Len(ls) : StartsWith(ls[i], d[Len(d)])}
    IN  IF hits = {} THEN <<>>
        ELSE dir \o <<ls[CHOOSE i \in hits : \A j \in hits : i <= j]>>

\* TRUE when some directive of the content names a base that no entry of
\* its directory starts with.
MissingEntry(path, content) ==
    \E i \in 1..Len(content) :
        /\ content[i] \in Directives
        /\ FirstEntry(DependencyPath(path, content[i])) = <<>>

RECURSIVE SpliceInferred(_, _, _, _)
\* The content with every directive replaced where it stands by the content
\* of the first entry that starts with the base it names.
SpliceInferred(path, content, seen, depth) ==
    IF content = <<>> THEN <<>>
    ELSE IF Head(content) \notin Directives
    THEN <<Head(content)>> \o SpliceInferred(path, Tail(content), seen, depth)
    ELSE LET d == DependencyPath(path, Head(content))
         IN  IF options.importOnce /\ d \in seen
             THEN SpliceInferred(path, Tail(content), seen, depth)
             ELSE (IF options.importRecursively /\ depth > 0
                   THEN SpliceInferred(d, Disk(FirstEntry(d)), {}, depth - 1)
                   ELSE Disk(FirstEntry(d)))
                  \o SpliceInferred(path, Tail(content), seen \cup {d}, depth)

\* C16: without requireExtension a directive inlines the first entry of the
\* target directory whose name starts with the base it gives, and a pass
\* with a directive whose base no entry starts with fails with the error of
\* a dependency that does not exist.
C16_ExtensionInference ==
    ~options.requireExtension
    => /\ \A c \in CallIds :
             (/\ calls[c].op = "execute"
              /\ calls[c].file.mode = "buffer"
              /\ calls[c].file.path # Undefined
              /\ calls[c].st \in {"done", "error"})
             => IF MissingEntry(calls[c].file.path, calls[c].file.contents)
                THEN /\ calls[c].st = "error"
                     /\ calls[c].err = "PluginError"
                     /\ calls[c].out = <<>>
                ELSE /\ calls[c].st = "done"
                     /\ calls[c].out[1].contents
                          = SpliceInferred(calls[c].file.path, calls[c].file.contents,
                                           {}, MaxDepth)
       /\ \A s \in StreamIds :
             (streams[s].op = "execute" /\ streams[s].solo)
             => /\ streams[s].st = "ended"
                     => /\ ~MissingEntry(streams[s].path, streams[s].src)
                        /\ streams[s].out
                             = SpliceInferred(streams[s].path, streams[s].src, {}, MaxDepth)
                /\ streams[s].st = "stalled"
                     => MissingEntry(streams[s].path, streams[s].src)

\* C16 witness: "m" has inlined /r/m.x, the first of m.x and m.y, and the
\* pass has then failed on "q", which nothing starts with.
C16_Witness ==
    /\ ~options.requireExtension
    /\ \E c \in CallIds :
           /\ calls[c].op = "execute"
           /\ calls[c].file.contents = <<"@m", "@q">>
           /\ calls[c].pass.cur = <<"y", "@q">>
           /\ calls[c].st = "error"
           /\ calls[c].err = "PluginError"
           /\ calls[c].out = <<>>

\* C17: the text that takes the place of the directive is the dependency
\* content, text for text, whatever follows a "$" in it.
C17_VerbatimInsertion ==
    sample.done
    => LET i == IndexOf(sample.content, sample.value)
       IN  sample.out = SubSeq(sample.content, 1, i - 1)
                          \o sample.dContent
                          \o SubSeq(sample.content, i + 1, Len(sample.content))

\* C17 witness: a dependency content of "$" and "&" and "$" stands between
\* the text before the directive and the text after it.
C17_Witness ==
    /\ sample.done
    /\ sample.content = <<"x", "@c", "z">>
    /\ sample.dContent = <<"$", "&", "$">>
    /\ sample.out = <<"x", "$", "&", "$", "z">>

\* C18: whether a streamed pass drops a directive as a repeated import
\* depends only on what that pass resolved before it: a pass read to its
\* end has an output it can have when it is the only pass on the engine,
\* whatever other passes ran, ended or failed beside it.
C18_StackPerPass ==
    \A s \in StreamIds :
        StreamDone(s)
        => streams[s].out \in AloneOutputs(streams[s].path, streams[s].src, <<>>, <<>>,
                                          streams[s].tr)

\* A dependent's stream that updateDependency emitted and downstream read to
\* its end, the primary having two or more cached dependents.
DependentRead(s) ==
    /\ streams[s].op = "update"
    /\ streams[s].st = "ended"
    /\ Len(iterateCache(streams[s].primary)) >= 2

\* C19: when a streamed primary has two or more cached dependents, every
\* emitted dependent that is read to its end holds what its resolution
\* alone yields, the primary's content standing where its directive stood,
\* in whatever order the streams are read.
C19_StreamedDependents ==
    \A s \in StreamIds :
        DependentRead(s)
        => streams[s].out \in AloneOutputs(streams[s].path, streams[s].src, <<>>, <<>>,
                                          FALSE)

\* C20: with recursive import and import once, a pass over files whose
\* imports form a cycle terminates: no handler and no transform is left in
\* a recursion that never ends.
C20_CycleTerminates ==
    (options.importRecursively /\ options.importOnce)
    => /\ \A c \in CallIds : calls[c].st # "hung"
       /\ \A s \in StreamIds : streams[s].st # "hung"

\* C21: a streamed file processed alone with import once drops the
\* directive of a path an earlier chunk inlined, in whatever chunk it
\* arrives, so that its output is the content with the first directive of
\* every path replaced and the later ones gone; no stack holds a path twice.
C21_OnceAcrossChunks ==
    options.importOnce
    => /\ \A a \in ArrIds :
             \A i \in 1..Len(arrays[a]) : Count(arrays[a], arrays[a][i]) = 1
       /\ \A s \in StreamIds :
             (StreamAlone(s) /\ NoEcho(streams[s].path, streams[s].src))
             => streams[s].out = SpliceFrom(streams[s].path, streams[s].src, {}, MaxDepth)

\* C21 witness: the two directives for /r/c came in two chunks and /r/c
\* was inlined once.
C21_Witness ==
    \E s \in StreamIds :
        /\ StreamAlone(s)
        /\ options.importOnce
        /\ streams[s].src = <<"@c", "@c">>
        /\ streams[s].chunks = 2
        /\ streams[s].out = <<"$", "&">>

\* A streamed pass has ended and no other is reading, failed or hung.
AfterEnd ==
    /\ \E t \in StreamIds : streams[t].st = "ended"
    /\ \A t \in StreamIds : streams[t].st \in {"idle", "ended"}

\* C22: when a streamed pass ends the shared stack is empty; a file
\* streamed next starts on the empty stack, and read alone to its end it has
\* inlined the file of every one of its directives.
C22_EndClearsStack ==
    /\ [](AfterEnd => arrays[streamResolveStack] = <<>>)
    /\ [](\A s \in StreamIds :
            StreamAlone(s)
            => \A i \in 1..Len(streams[s].src) :
                  streams[s].src[i] \in Directives
                  => DependencyPath(streams[s].path, streams[s].src[i]) \in streams[s].recv)
    /\ [][/\ \A s \in StreamIds :
               (streams[s].st = "open" /\ streams'[s].st = "ended")
               => arrays'[streamResolveStack'] = <<>>
          /\ \A s \in StreamIds :
               (/\ AfterEnd
                /\ streams'[s].st = "open"
                /\ streams'[s].op = "execute")
               => streams'[s].solo]_vars

\* C22 witness: the pass of /r/a inlined /r/c and ended; /r/p, streamed
\* next with import once, has inlined /r/c too.
C22_Witness ==
    \E s \in StreamIds :
        /\ StreamAlone(s)
        /\ options.importOnce
        /\ streams[s].path = <<"p">>
        /\ streams[s].src = <<"x", "@c">>
        /\ streams[s].out = <<"x", "$", "&">>
        /\ <<PathC, PathA>> \in inlined

\* TRUE when the handler pushed the file whose contents is transform s.
FilePushed(s) ==
    \E c \in CallIds :
        \E i \in 1..Len(calls[c].out) :
            /\ calls[c].out[i].role = "exec"
            /\ calls[c].out[i].mode = "stream"
            /\ calls[c].out[i].sid = s

\* C23: of a streamed file with a directive whose dependency cannot be
\* read nothing goes downstream: not the file, and not the resolved text of
\* a chunk that came before the failing one.
C23_StreamFailsAsAWhole ==
    \A s \in StreamIds :
        StreamFailed(s) => streams[s].out = <<>> /\ ~FilePushed(s)

\* TRUE when an error was reported to the caller of execute() for the file
\* whose contents is transform s.
Surfaced(s) ==
    \E c \in CallIds :
        /\ calls[c].err # "none"
        /\ calls[c].op = "execute"
        /\ calls[c].file.mode = "stream"
        /\ PathResolve(<<>>, calls[c].file.path) = PathResolve(<<>>, streams[s].path)

\* C24: a transform that has received a chunk eventually either has
\* emitted its resolved text and is ready for the next, or has an error
\* reported to the caller of execute().
C24_StreamSettles ==
    \A s \in StreamIds :
        (streams[s].st = "open" /\ streams[s].busy)
        ~> (~streams[s].busy /\ (streams[s].st \in {"open", "ended"} \/ Surfaced(s)))

\* C25: when the transformation produces no file for a dependency, the
\* pass fails with the error of a dependency that was not found: without
\* recursive import no handler and no transform is left waiting for ever.
C25_HookFailureSurfaces ==
    (innerPl /\ ~options.importRecursively)
    => /\ \A c \in CallIds :
             /\ calls[c].st # "hung"
             /\ (calls[c].op = "execute" /\ calls[c].file.mode = "buffer"
                   /\ calls[c].file.path # Undefined
                   /\ calls[c].st \in {"done", "error"}
                   /\ HasUnreadable(calls[c].file))
                => calls[c].st = "error" /\ calls[c].err = "PluginError"
       /\ \A s \in StreamIds : streams[s].st # "hung"

\* C26: a buffered updateDependency with a cached dependent that cannot be
\* resolved again fails with an error and pushes nothing: not the primary
\* and not the dependents resolved before the failing one.
C26_UpdateFailsAsAWhole ==
    \A c \in CallIds :
        UpdateCall(c, "buffer")
        => /\ calls[c].readFailed
                => /\ calls[c].st = "error"
                   /\ calls[c].err = "PluginError"
                   /\ calls[c].out = <<>>
           /\ (/\ calls[c].st \in {"done", "error"}
                /\ \E i \in 1..Len(calls[c].deps) : calls[c].deps[i] \notin DiskFiles)
                => calls[c].st = "error" /\ calls[c].out = <<>>

\* C26 witness: /r/s/b was resolved again, /r/m could not be read, and
\* under a policy that emits dependents nothing was pushed.
C26_Witness ==
    \E c \in CallIds :
        /\ UpdateCall(c, "buffer")
        /\ options.dependencyOutput = "all"
        /\ calls[c].deps = <<PathSB, PathM>>
        /\ Len(calls[c].list) = 1
        /\ calls[c].list[1].path = PathSB
        /\ calls[c].st = "error"
        /\ calls[c].out = <<>>

\* C26 as stated: the dependents resolved before the failing one have been
\* pushed when the call fails.
C26_PartialEmission ==
    \A c \in CallIds :
        (/\ UpdateCall(c, "buffer")
         /\ calls[c].st = "error"
         /\ options.dependencyOutput # "primary")
        => \A i \in 1..Len(calls[c].list) :
              \E j \in 1..Len(calls[c].out) : calls[c].out[j] = calls[c].list[i]


\* C27: with extension inference the key of a dependency, in the cache and
\* on the resolve stack, is the path of the file its directive was resolved
\* to: once a file is resolved, updateDependency() on that file finds the
\* dependent, and under importOnce a second directive that spells the same
\* file with its extension is a repeat and is dropped.
C27_CanonicalKey ==
    ~options.requireExtension
    => \A c \in CallIds :
          /\ BufferExecuteDone(c)
             => /\ \A i \in 1..Len(calls[c].file.contents) :
                      calls[c].file.contents[i] \in Directives
                      => Resolved(calls[c].file.path)
                           \in SeqToSet(iterateCache(
                                 FirstEntry(DependencyPath(Resolved(calls[c].file.path),
                                                           calls[c].file.contents[i]))))
                /\ (options.importOnce /\ calls[c].file.contents = <<"@m", "@m.x">>)
                   => calls[c].out[1].contents = Disk(PathMX)
          /\ (/\ UpdateCall(c, "buffer")
              /\ \E d \in {PathM, PathMX, PathNX} :
                    /\ <<d, PathP>> \in inlined
                    /\ FirstEntry(d) = Resolved(calls[c].file.path))
             => PathP \in SeqToSet(calls[c].deps)

\* C28: inference is for paths that carry no extension: a directive that
\* names an existing file with its extension inlines exactly that file,
\* whatever else its directory lists.
C28_ExtensionKept ==
    ~options.requireExtension
    => \A c \in CallIds :
          (/\ BufferExecuteDone(c)
           /\ Len(calls[c].file.contents) = 1
           /\ calls[c].file.contents[1] \in {"@m.x", "@n.x"})
          => calls[c].out[1].contents
               = Disk(DependencyPath(Resolved(calls[c].file.path),
                                     calls[c].file.contents[1]))

RECURSIVE PathsOnce(_, _, _)
\* The dependency paths the matches name from the file at `path`, each once,
\* in the order of their first match, after those of acc.
PathsOnce(path, matches, acc) ==
    IF matches = <<>> THEN acc
    ELSE PathsOnce(path, Tail(matches),
                   IF DependencyPath(path, Head(matches)) \in SeqToSet(acc) THEN acc
                   ELSE Append(acc, DependencyPath(path, Head(matches))))

\* The matches a buffered pass has gone through so far.
MatchesDone(call) ==
    SubSeq(matchAll(call.file.contents), 1,
           Len(matchAll(call.file.contents)) - Len(call.pass.todo))

\* C29: with importRecursively and importOnce every nested replace starts on
\* an empty resolve stack and writes nothing to the outer one: the stack of
\* a pass holds the paths its own content has named and no others, a path
\* inlined at an outer level or in a sibling is inlined again where a nested
\* dependency names it, and a repeat is dropped only among the directives of
\* one content.
C29_NestedStackFresh ==
    (options.importOnce /\ options.importRecursively)
    => /\ \A c \in CallIds :
             /\ (/\ calls[c].op = "execute"
                 /\ calls[c].file.mode = "buffer"
                 /\ calls[c].st \in {"run", "done"})
                => calls[c].pass.stack
                     = PathsOnce(calls[c].pass.path, MatchesDone(calls[c]), <<>>)
             /\ BufferExecuteDone(c)
                => calls[c].out[1].contents
                     = SpliceFrom(calls[c].file.path, calls[c].file.contents, {}, MaxDepth)
       /\ \A s \in StreamIds :
             StreamAlone(s)
             => streams[s].out = SpliceFrom(streams[s].path, streams[s].src, {}, MaxDepth)

\* C29 witness: /r/c was inlined for the first directive, and inlined again
\* inside /r/s/b, which names it too; the stack of the pass holds the two
\* paths the content itself names.
C29_Witness ==
    \E c \in CallIds :
        /\ BufferExecuteDone(c)
        /\ options.importOnce /\ options.importRecursively
        /\ calls[c].file.contents = <<"@c", "@s/b">>
        /\ calls[c].pass.stack = <<PathC, PathSB>>
        /\ calls[c].out[1].contents = <<"$", "&", "$", "&", "z">>

\* C30: the dependency cache is empty when the engine is made and only
\* grows: whatever execute() or updateDependency() does, and whether it
\* succeeds or fails, every dependent listed under a dependency stays listed
\* under it, also when the dependent is resolved again with a content that
\* does not name the dependency any more.
C30_CacheOnlyGrows ==
    /\ DOMAIN cache = {}
    /\ [][\A key \in DOMAIN cache :
              /\ key \in DOMAIN cache'
              /\ SeqToSet(cache[key]) \subseteq SeqToSet(cache'[key])]_vars

\* C30 witness: /r/p was resolved again with a content without directives
\* and is still listed under /r/c, which it named before.
C30_Witness ==
    \E c \in CallIds :
        /\ BufferExecuteDone(c)
        /\ Resolved(calls[c].file.path) = PathP
        /\ calls[c].file.contents = <<"x">>
        /\ ncalls = 2
        /\ PathP \in SeqToSet(CacheEntries(cache, encode(PathC)))

\* The dependencies the pass of a transform has inlined into its own file.
InlinedBy(s) == {pair[1] : pair \in {q \in inlined : q[2] = Resolved(streams[s].path)}}

\* C31: writes to the cache are safe when passes run interleaved: no
\* insertion is lost and none is made twice.  Whatever the order in which
\* the transforms of two files took their turns, each file is listed exactly
\* once under every dependency its pass has inlined, both are listed under
\* a dependency both have inlined, and no list holds a file twice.
C31_CacheWritesSafe ==
    /\ \A key \in DOMAIN cache :
          \A i, j \in 1..Len(cache[key]) : cache[key][i] = cache[key][j] => i = j
    /\ \A s, t \in StreamIds :
          (streams[s].st # "idle" /\ streams[t].st # "idle")
          => \A D \in InlinedBy(s) :
                /\ Count(CacheEntries(cache, encode(D)), Resolved(streams[s].path)) = 1
                /\ D \in InlinedBy(t)
                   => {Resolved(streams[s].path), Resolved(streams[t].path)}
                        \subseteq SeqToSet(CacheEntries(cache, encode(D)))

\* C31 witness: the transforms of /r/p and /r/a were open together, each has
\* inlined /r/c, and /r/c lists the two files, each once.
C31_Witness ==
    /\ streams[1].st = "open" /\ streams[2].st = "open"
    /\ streams[1].op = "execute" /\ streams[2].op = "execute"
    /\ {Resolved(streams[1].path), Resolved(streams[2].path)} = {PathP, PathA}
    /\ PathC \in InlinedBy(1) /\ PathC \in InlinedBy(2)
    /\ Len(CacheEntries(cache, encode(PathC))) = 2
    /\ SeqToSet(CacheEntries(cache, encode(PathC))) = {PathP, PathA}

\* What execute(), called as this engine's execute() is called, makes of the
\* file at `path` as it is on disk: resolveBuffer(file, innerPl).
ExecuteWould(path) ==
    replace(path, Disk(path), matchAll(Disk(path)), <<>>,
            Env(cache, inlined, {}, innerPl), MaxDepth)

\* C32: the content updateDependency() emits for a dependent is the content
\* execute() produces for that file as it is on disk, on the same engine and
\* called the same way, a transformation given to execute() included.
C32_UpdateAsExecute ==
    /\ \A c \in CallIds :
          (UpdateCall(c, "buffer") /\ calls[c].st = "done")
          => \A i \in 1..Len(calls[c].out) :
                (/\ calls[c].out[i].role = "dep"
                 /\ ExecuteWould(calls[c].out[i].path).st = "ok")
                => calls[c].out[i].contents = ExecuteWould(calls[c].out[i].path).content
    /\ \A s \in StreamIds :
          (/\ streams[s].op = "update"
           /\ streams[s].st = "ended"
           /\ ExecuteWould(streams[s].path).st = "ok")
          => streams[s].out = ExecuteWould(streams[s].path).content

\* The dependency the next turn of a buffered pass is about.
NextDependency(call) == DependencyPath(call.pass.path, Head(call.pass.todo))

\* C33: a file is listed under a dependency only once the content of the
\* dependency was obtained and put into the file: every entry of the cache
\* is one of an inlining; a turn of a pass for a directive dropped as a
\* repeat, or for one whose file cannot be read, leaves the cache as it is;
\* and when a pass has failed, what it inlined before is still listed.
C33_ListedWhenInlined ==
    /\ [](\A key \in DOMAIN cache :
            \A P \in SeqToSet(cache[key]) :
               \E pair \in inlined : key = encode(pair[1]) /\ P = pair[2])
    /\ [](\A c \in CallIds :
            calls[c].st = "error"
            => \A pair \in inlined :
                  pair[2] \in SeqToSet(CacheEntries(cache, encode(pair[1]))))
    /\ [][\A c \in CallIds :
            (/\ calls[c].st = "run"
             /\ calls'[c] # calls[c]
             /\ \/ /\ options.importOnce
                    /\ NextDependency(calls[c]) \in SeqToSet(calls[c].pass.stack)
                \/ getDependencyContent(NextDependency(calls[c]), calls[c].pass.tr).st
                     = "err")
            => cache' = cache]_vars

\* C33 witness: the pass of /r/p inlined /r/c and then failed on /r/m,
\* which is not there: /r/p is listed under /r/c and nothing under /r/m.
C33_Witness ==
    \E c \in CallIds :
        /\ calls[c].op = "execute"
        /\ calls[c].file.contents = <<"@c", "@m">>
        /\ calls[c].readFailed
        /\ calls[c].st = "error"
        /\ CacheEntries(cache, encode(PathC)) = <<PathP>>
        /\ encode(PathM) \notin DOMAIN cache

\* TRUE when a directive of the content of the file at `path` names D.
Refers(path, content, D) ==
    \E i \in 1..Len(content) :
        content[i] \in Directives /\ DependencyPath(path, content[i]) = D

\* C34: the error reported when a dependency cannot be read names the path
\* of the dependency that could not be read and the path of the file whose
\* directive named it.
C34_ErrorNamesBoth ==
    \A c \in CallIds :
        (/\ calls[c].op = "execute"
         /\ calls[c].file.mode = "buffer"
         /\ calls[c].st = "error"
         /\ calls[c].readFailed)
        => \E D, F \in SeqToSet(calls[c].msg.names) :
              /\ ~readFile(D).ok
              /\ \/ /\ Resolved(F) = Resolved(calls[c].file.path)
                    /\ Refers(calls[c].file.path, calls[c].file.contents, D)
                 \/ /\ F \in DiskFiles
                    /\ Refers(F, Disk(F), D)
====
